---- MODULE Spec2Model ----
(***************************************************************************)
(* Request dispatch of the three CryptoPrediction dashboards:              *)
(*   "home"  - src/src/app/home/index.tsx                                  *)
(*   "yahoo" - src/src/app/yahoo-dataset/index.tsx                         *)
(*   "basic" - src/unnamed/part_000                                        *)
(* The state is the component state of one mounted dashboard (useState     *)
(* slots), the invocations of its async handlers that have not finished    *)
(* (their position and the formData their closure captured), and the       *)
(* fetches that are in flight.  Every await of a handler is a yield point: *)
(* one action per stretch of code that runs between two awaits.            *)
(***************************************************************************)
EXTENDS Integers, Sequences, FiniteSets, TLC

\* ---------------------------------------------------------------- bounds
\* Submissions of the form that one behaviour contains.
MaxSubmits == 2
\* How many entries of each option list (from its head) the user picks from.
MaxOptions == 2
\* How many pieces a rendered signal text is joined from.
MaxTokens == 2

\* ------------------------------------------------------- values (JS/JSON)
\* null, a string, a JSON object (a function from field names to values).
Null == [kind |-> "null"]
Str(s) == [kind |-> "string", value |-> s]
Obj(f) == [kind |-> "object", fields |-> f]
EmptyFields == [k \in {} |-> Null]

\* JS truthiness of the values above: null and "" are falsy.
Truthy(v) == v # Null /\ v # Str("")

\* obj.field of a parsed JSON value: undefined (modelled as Null, both falsy)
\* when the field is absent.  Reading a field of null throws.
Field(v, name) ==
  IF v.kind = "object" /\ name \in DOMAIN v.fields THEN v.fields[name] ELSE Null

\* ------------------------------------------------------------- variants
Variants == {"home", "yahoo", "basic"}

\* The option lists of the selects.
timeframes(v) ==
  IF v = "yahoo" THEN <<"1d", "1wk", "1mo">>
  ELSE <<"daily", "weekly", "monthly">>

periods(v) ==
  IF v = "yahoo" THEN <<"7d", "30d", "90d", "1y", "max">>
  ELSE <<"30", "60", "90", "120", "180", "360">>

popularCryptos(v) ==
  IF v = "yahoo"
  THEN <<"BTC-USD", "ETH-USD", "SOL-USD", "BNB-USD",
         "XRP-USD", "ADA-USD", "DOT-USD", "DOGE-USD">>
  ELSE <<"BTC", "ETH", "SOL", "BNB", "XRP", "ADA", "DOT", "DOGE">>

\* What the user types into the api_key text input.
ApiKeyInputs == {"", "4W0ZWSSG69XAYG4U"}

\* useState initial value of formData.
InitialFormData(v) ==
  CASE v = "home" ->
         [base_currency |-> "BTC", quote_currency |-> "USD",
          timeframe |-> "daily", period |-> "180",
          api_key |-> "4W0ZWSSG69XAYG4U"]
    [] v = "basic" ->
         [base_currency |-> "BTC", quote_currency |-> "USD",
          timeframe |-> "daily", period |-> "30", api_key |-> ""]
    [] v = "yahoo" ->
         [symbol |-> "BTC-USD", timeframe |-> "1d", period |-> "30d"]

\* Field order of the FormData object literal (the order JSON.stringify
\* emits).
FormKeys(v) ==
  IF v = "yahoo" THEN <<"symbol", "timeframe", "period">>
  ELSE <<"base_currency", "quote_currency", "timeframe", "period", "api_key">>

\* The name of the select bound to popularCryptos.
CryptoField(v) == IF v = "yahoo" THEN "symbol" ELSE "base_currency"

\* The entries of an option list the user picks from.
Choices(list) ==
  {list[i] : i \in 1..(IF Len(list) < MaxOptions THEN Len(list) ELSE MaxOptions)}

\* A period control that is a free text input.
FieldInputs_FreeText(v, name) ==
  CASE name = CryptoField(v) -> Choices(popularCryptos(v))
    [] name = "timeframe" -> Choices(timeframes(v))
    [] name = "period" -> Choices(periods(v)) \cup {"365"}
    [] name = "api_key" -> ApiKeyInputs
    [] OTHER -> {}

\* The values the form control of a field can deliver to its onChange.
FieldInputs(v, name) ==
  CASE name = CryptoField(v) -> Choices(popularCryptos(v))
    [] name = "timeframe" -> Choices(timeframes(v))
    [] name = "period" -> Choices(periods(v))
    [] name = "api_key" -> ApiKeyInputs
    [] OTHER -> {}

\* JSON.stringify(formData): the fields in key order, each with its value.
JSONstringify(fd, keys) == [i \in 1..Len(keys) |-> <<keys[i], fd[keys[i]]>>]

\* ------------------------------------------------------------- messages
FallbackMessage == "Failed to fetch prediction"
MarketFallbackMessage == "Failed to fetch market data"
GenericMessage == "An error occurred"
\* Messages of the exceptions the platform throws (engine-defined texts).
NetworkErrorMessage == "Failed to fetch"
ParseErrorMessage == "Unexpected token < in JSON at position 0"
NullReadMessage == "Cannot read properties of null (reading 'detail')"

\* An exception value: every exception fetch(), response.json() and
\* `new Error` produce is an Error instance.
ErrorOf(msg) == [isError |-> TRUE, message |-> msg]

\* catch (err): err instanceof Error ? err.message : "An error occurred"
CaughtMessage(err) == IF err.isError THEN err.message ELSE GenericMessage

\* --------------------------------------------------------- the endpoints
PredictPath(v) ==
  IF v = "yahoo" THEN "/api-analysis-yahoo/predict" ELSE "/api-analysis/predict"

MarketPath(v) ==
  IF v = "yahoo" THEN "/api-analysis-yahoo/market-movers"
  ELSE "/api-analysis/market-movers"

NewsPath == "/api-analysis-yahoo/news"

\* ------------------------------------------------- what the backend sends
\* Bodies of a non-2xx prediction response, as response.json() sees them:
\* text that is not JSON, the JSON value null, or a JSON object with or
\* without a detail string.
Unparseable == [kind |-> "unparseable"]
ErrorBodies ==
  { Unparseable, Null, Obj(EmptyFields),
    Obj([detail |-> Str("Invalid symbol")]), Obj([detail |-> Str("")]) }

\* The top-level fields of the declared payload types:
\* interface PredictionData, interface MarketMovers, interface NewsSentiment
\* (NewsResponse in yahoo).
DeclaredFields(kind, v) ==
  CASE kind = "predict" ->
         {"prediction", "probability_up", "probability_down", "current_price",
          "technical_indicators", "accuracy", "plot_base64", "forecast"}
    [] kind = "market" ->
         {"top_gainers", "top_losers", "most_actively_traded", "last_updated"}
    [] kind = "news" ->
         IF v = "yahoo" THEN {"items", "total_count"}
         ELSE {"items", "sentiment_summary", "total_count"}

\* A JSON object with exactly the declared fields (their values opaque).
Declared(kind, v, tag) ==
  Obj([k \in DeclaredFields(kind, v) |-> Str(tag)])

\* Bodies of a 2xx response of each request type (opaque to the dispatcher):
\* text that is not JSON, an object of the declared shape, and JSON objects
\* of another shape (fields missing, or none at all).
PredictionBodies ==
  { Unparseable, Declared("predict", "home", "UP"),
    Obj([prediction |-> Str("DOWN")]) }
MarketBodies ==
  { Unparseable, Declared("market", "home", "t1"), Obj(EmptyFields) }
NewsBodies ==
  { Unparseable, Declared("news", "yahoo", "n1"), Obj(EmptyFields) }

\* ------------------------------------------------------------------ state
VARIABLES
  variant,        \* which dashboard is mounted
  formData,       \* useState<FormData>
  prediction,     \* useState<PredictionData | null>
  marketMovers,   \* useState<MarketMovers | null>
  news,           \* useState<NewsResponse | null> (home: newsSentiment)
  loading,        \* useState<boolean>
  marketLoading,  \* home: useState(false)
  newsLoading,    \* home: useState(false)
  error,          \* useState<string | null>
  nsub,           \* submissions so far
  handlers,       \* handleSubmit invocations, by submission: position,
                  \* captured formData, and whether setPrediction ran
  movers,         \* home: fetchMarketMovers invocations, by submission
  net,            \* fetches in flight: submission and request type
  sent,           \* the requests the last step issued
  posts,          \* prediction POSTs issued, by submission
  last,           \* the event the last step handled
  rendering       \* the widget rendered last: its input and output

\* The state of the request dispatcher.
dispatcher == <<variant, formData, prediction, marketMovers, news, loading,
                marketLoading, newsLoading, error, nsub, handlers, movers,
                net, sent, posts, last>>
vars == <<dispatcher, rendering>>

Subs == 1..MaxSubmits

\* The fields of formData that handleSubmit reads after its first await:
\* formData.api_key (home), formData.symbol (yahoo), none (basic).
ReadAfterAwait(v) ==
  CASE v = "home" -> {"api_key"}
    [] v = "yahoo" -> {"symbol"}
    [] OTHER -> {}

\* The formData a handleSubmit invocation closes over, as far as the
\* invocation reads it after its first await.
Captured(v, fd) == [k \in ReadAfterAwait(v) |-> fd[k]]

\* An invocation that has not started, or has returned (its closure is gone).
NoClosure == [k \in {} |-> ""]
Idle == [pc |-> "idle", formData |-> NoClosure, stored |-> FALSE]
NoMover == [pc |-> "idle", apiKey |-> ""]

InitDispatcher ==
  /\ variant \in Variants
  /\ formData = InitialFormData(variant)
  /\ prediction = Null
  /\ marketMovers = Null
  /\ news = Null
  /\ loading = FALSE
  /\ marketLoading = FALSE
  /\ newsLoading = FALSE
  /\ error = Null
  /\ nsub = 0
  /\ handlers = [i \in Subs |-> Idle]
  /\ movers = [i \in Subs |-> NoMover]
  /\ net = {}
  /\ sent = {}
  /\ posts = [i \in Subs |-> 0]
  /\ last = [op |-> "init"]

\* A widget with its props and the browser it is rendered in, before and
\* after it is rendered.
Props(component, input, tz, engine) ==
  [component |-> component, input |-> input, tz |-> tz, engine |-> engine,
   done |-> FALSE, output |-> ""]
Rendered(props, output) == [props EXCEPT !.done = TRUE, !.output = output]

Init ==
  /\ InitDispatcher
  /\ rendering = Props("none", "", 0, "")

\* ----------------------------------------------------- requests (fetch)
\* A POST issued with no headers option.
JsonHeaders_None(v) == {}

\* headers: {"Content-Type": "application/json"[, Accept: "application/json"]}
JsonHeaders(v) ==
  IF v = "yahoo" THEN {<<"Content-Type", "application/json">>}
  ELSE {<<"Content-Type", "application/json">>, <<"Accept", "application/json">>}

\* fetch(<predict>, {method: "POST", headers, body: JSON.stringify(formData)})
PredictRequest(id, fd) ==
  [id |-> id, kind |-> "predict", method |-> "POST",
   path |-> PredictPath(variant), query |-> <<>>,
   headers |-> JsonHeaders(variant),
   body |-> JSONstringify(fd, FormKeys(variant))]

\* home: fetch(`.../market-movers?api_key=${apiKey}`); yahoo: fetch(".../market-movers")
MarketRequest(id, apiKey) ==
  [id |-> id, kind |-> "market", method |-> "GET",
   path |-> MarketPath(variant),
   query |-> IF variant = "home" THEN <<"api_key", apiKey>> ELSE <<>>,
   headers |-> {}, body |-> <<>>]

\* The news GET built from the form as it is when the GET is issued.
NewsRequest_CurrentForm(id, fd) ==
  [id |-> id, kind |-> "news", method |-> "GET", path |-> NewsPath,
   query |-> <<"symbol", formData.symbol>>, headers |-> {}, body |-> <<>>]

\* yahoo: fetch(`.../news?symbol=${formData.symbol}`), formData being the
\* value the handler's closure captured.
NewsRequest(id, fd) ==
  [id |-> id, kind |-> "news", method |-> "GET", path |-> NewsPath,
   query |-> <<"symbol", fd.symbol>>, headers |-> {}, body |-> <<>>]

\* What `net` keeps of a request while its fetch is pending.
Pending(r) == [id |-> r.id, kind |-> r.kind]

InFlight(id, kind) == {r \in net : r.id = id /\ r.kind = kind}

\* ------------------------------------------------------------- the form
\* A submit control that stays enabled while a request is pending.
SubmitDisabled_Never == FALSE

\* A submit control bound to the market-movers flag.
SubmitDisabled_ByMarketLoading == marketLoading

\* <Button type="submit" disabled={loading}>
SubmitDisabled == loading

\* A field change that also clears the loading flag.
ChangeField_ResetsLoading(name, value) ==
  /\ name \in DOMAIN formData
  /\ value \in FieldInputs(variant, name)
  /\ value # formData[name]
  /\ formData' = [formData EXCEPT ![name] = value]
  /\ loading' = FALSE
  /\ last' = [op |-> "change"]
  /\ sent' = {}
  /\ UNCHANGED <<rendering, variant, prediction, marketMovers, news,
                 marketLoading, newsLoading, error, nsub, handlers, movers,
                 net, posts>>

\* onValueChange / onChange of one control:
\* setFormData({...formData, [name]: value})
ChangeField(name, value) ==
  /\ name \in DOMAIN formData
  /\ value \in FieldInputs(variant, name)
  /\ value # formData[name]
  /\ formData' = [formData EXCEPT ![name] = value]
  /\ last' = [op |-> "change"]
  /\ sent' = {}
  /\ UNCHANGED <<rendering, variant, prediction, marketMovers, news, loading,
                 marketLoading, newsLoading, error, nsub, handlers, movers,
                 net, posts>>

\* ------------------------------------------------------- handleSubmit
\* handleSubmit without its setError(null).
Submit_KeepsError ==
  /\ nsub < MaxSubmits
  /\ ~loading
  /\ nsub' = nsub + 1
  /\ loading' = TRUE
  /\ handlers' = [handlers EXCEPT ![nsub + 1] =
                    [pc |-> "predict_fetch",
                     formData |-> Captured(variant, formData),
                     stored |-> FALSE]]
  /\ net' = net \cup {Pending(PredictRequest(nsub + 1, formData))}
  /\ sent' = {PredictRequest(nsub + 1, formData)}
  /\ posts' = [posts EXCEPT ![nsub + 1] = @ + 1]
  /\ last' = [op |-> "submit", id |-> nsub + 1]
  /\ UNCHANGED <<rendering, variant, formData, prediction, marketMovers, news,
                 marketLoading, newsLoading, movers, error>>

\* A submit that discards the prediction shown before it asks for a new one.
Submit_ClearsPrediction ==
  /\ nsub < MaxSubmits
  /\ ~SubmitDisabled
  /\ nsub' = nsub + 1
  /\ loading' = TRUE
  /\ error' = Null
  /\ prediction' = Null
  /\ handlers' = [handlers EXCEPT ![nsub + 1] =
                    [pc |-> "predict_fetch",
                     formData |-> Captured(variant, formData),
                     stored |-> FALSE]]
  /\ net' = net \cup {Pending(PredictRequest(nsub + 1, formData))}
  /\ sent' = {PredictRequest(nsub + 1, formData)}
  /\ posts' = [posts EXCEPT ![nsub + 1] = @ + 1]
  /\ last' = [op |-> "submit", id |-> nsub + 1]
  /\ UNCHANGED <<rendering, variant, formData, marketMovers, news,
                 marketLoading, newsLoading, movers>>

\* From the submit event to the first await: setLoading(true),
\* setError(null), and the prediction POST is issued.
Submit ==
  /\ nsub < MaxSubmits
  /\ ~SubmitDisabled
  /\ nsub' = nsub + 1
  /\ loading' = TRUE
  /\ error' = Null
  /\ handlers' = [handlers EXCEPT ![nsub + 1] =
                    [pc |-> "predict_fetch",
                     formData |-> Captured(variant, formData),
                     stored |-> FALSE]]
  /\ net' = net \cup {Pending(PredictRequest(nsub + 1, formData))}
  /\ sent' = {PredictRequest(nsub + 1, formData)}
  /\ posts' = [posts EXCEPT ![nsub + 1] = @ + 1]
  /\ last' = [op |-> "submit", id |-> nsub + 1]
  /\ UNCHANGED <<rendering, variant, formData, prediction, marketMovers, news,
                 marketLoading, newsLoading, movers>>

\* The handler returns: its closure is released.
Returned(h) == [pc |-> "done", formData |-> NoClosure, stored |-> h.stored]

\* A catch that only logs the exception.
Fail_LogOnly(id, err) ==
  /\ error' = error
  /\ loading' = FALSE
  /\ handlers' = [handlers EXCEPT ![id] = Returned(@)]

\* catch (err) { setError(...) } finally { setLoading(false) }
Fail(id, err) ==
  /\ error' = Str(CaughtMessage(err))
  /\ loading' = FALSE
  /\ handlers' = [handlers EXCEPT ![id] = Returned(@)]

\* finally { setLoading(false) } on the path that threw nothing.
Finish(id) ==
  /\ loading' = FALSE
  /\ handlers' = [handlers EXCEPT ![id] = Returned(@)]

\* The non-2xx branch throwing the fallback whatever the body holds.
ThrownOnNotOk_NoDetail(body) ==
  CASE body = Unparseable -> ErrorOf(ParseErrorMessage)
    [] body = Null -> ErrorOf(NullReadMessage)
    [] OTHER -> ErrorOf(FallbackMessage)

\* The non-2xx branch with the parse of the body guarded
\* (response.json().catch(() => ({}))).
ThrownOnNotOk_GuardedParse(body) ==
  CASE body = Unparseable -> ErrorOf(FallbackMessage)
    [] body = Null -> ErrorOf(NullReadMessage)
    [] OTHER ->
         ErrorOf(IF Truthy(Field(body, "detail"))
                 THEN Field(body, "detail").value
                 ELSE FallbackMessage)

\* What `if (!response.ok) { ... }` throws for a non-2xx body:
\* response.json() throws on text that is not JSON; errorData.detail throws
\* when errorData is null; else new Error(errorData.detail || fallback).
ThrownOnNotOk(body) ==
  CASE body = Unparseable -> ErrorOf(ParseErrorMessage)
    [] body = Null -> ErrorOf(NullReadMessage)
    [] OTHER ->
         ErrorOf(IF Truthy(Field(body, "detail"))
                 THEN Field(body, "detail").value
                 ELSE FallbackMessage)

\* The market-movers fetch started whatever the api_key holds.
ShouldFetchMarket_Always(fd) == TRUE

\* if (formData.api_key) of the home handler.
ShouldFetchMarket(fd) == Truthy(Str(fd.api_key))

\* `await fetch(<predict>)` settles: the fetch rejects (network failure), or
\* resolves with a 2xx or a non-2xx response.
PredictFetch(id, outcome) ==
  /\ handlers[id].pc = "predict_fetch"
  /\ outcome \in {"reject", "ok", "notok"}
  /\ net' = net \ InFlight(id, "predict")
  /\ sent' = {}
  /\ last' = [op |-> "predict_fetch", id |-> id, outcome |-> outcome]
  /\ CASE outcome = "reject" -> Fail(id, ErrorOf(NetworkErrorMessage))
       [] outcome = "ok" ->
            /\ handlers' = [handlers EXCEPT ![id].pc = "predict_json"]
            /\ UNCHANGED <<error, loading>>
       [] outcome = "notok" ->
            /\ handlers' = [handlers EXCEPT ![id].pc = "predict_errjson"]
            /\ UNCHANGED <<error, loading>>
  /\ UNCHANGED <<rendering, variant, formData, prediction, marketMovers, news,
                 marketLoading, newsLoading, nsub, movers, posts>>

\* A catch of the prediction failure that also resets the secondary payloads.
PredictErrJson_ResetsSecondary(id, body) ==
  /\ handlers[id].pc = "predict_errjson"
  /\ body \in ErrorBodies
  /\ Fail(id, ThrownOnNotOk(body))
  /\ marketMovers' = Null
  /\ news' = Null
  /\ last' = [op |-> "predict_errjson", id |-> id, body |-> body]
  /\ sent' = {}
  /\ UNCHANGED <<rendering, variant, formData, prediction,
                 marketLoading, newsLoading, nsub, movers, net, posts>>

\* `await response.json()` of a non-2xx response settles, and the handler
\* throws into its catch.
PredictErrJson(id, body) ==
  /\ handlers[id].pc = "predict_errjson"
  /\ body \in ErrorBodies
  /\ Fail(id, ThrownOnNotOk(body))
  /\ last' = [op |-> "predict_errjson", id |-> id, body |-> body]
  /\ sent' = {}
  /\ UNCHANGED <<rendering, variant, formData, prediction, marketMovers, news,
                 marketLoading, newsLoading, nsub, movers, net, posts>>

\* `await response.json()` of a 2xx response rejects: text that is not JSON.
PredictJsonFail(id) ==
  /\ handlers[id].pc = "predict_json"
  /\ Fail(id, ErrorOf(ParseErrorMessage))
  /\ last' = [op |-> "predict_json", id |-> id, body |-> Unparseable]
  /\ sent' = {}
  /\ UNCHANGED <<rendering, variant, formData, prediction, marketMovers, news,
                 marketLoading, newsLoading, nsub, movers, net, posts>>

\* fetchMarketMovers without its setMarketLoading(true).
fetchMarketMovers_NoFlag(id, apiKey) ==
  /\ marketLoading' = marketLoading
  /\ movers' = [movers EXCEPT ![id] = [pc |-> "fetch", apiKey |-> apiKey]]
  /\ net' = net \cup {Pending(MarketRequest(id, apiKey))}
  /\ sent' = {MarketRequest(id, apiKey)}

\* home: fetchMarketMovers(apiKey) up to its first await:
\* setMarketLoading(true), and the market-movers GET is issued.
fetchMarketMovers(id, apiKey) ==
  /\ marketLoading' = TRUE
  /\ movers' = [movers EXCEPT ![id] = [pc |-> "fetch", apiKey |-> apiKey]]
  /\ net' = net \cup {Pending(MarketRequest(id, apiKey))}
  /\ sent' = {MarketRequest(id, apiKey)}

\* The response checked against the declared shape, null on a mismatch.
AsPredictionData_Checked(data) ==
  IF "forecast" \in DOMAIN data.fields THEN data ELSE Null

\* `data as PredictionData`: a type assertion, no conversion at run time.
AsPredictionData(data) == data

\* A yahoo handler that issues both secondary GETs at once (Promise.all).
PredictJsonOk_Parallel(id, body) ==
  /\ handlers[id].pc = "predict_json"
  /\ body \in PredictionBodies \ {Unparseable}
  /\ prediction' = AsPredictionData(body)
  /\ last' = [op |-> "predict_json", id |-> id, body |-> body]
  /\ CASE variant = "basic" ->
            /\ loading' = FALSE
            /\ handlers' = [handlers EXCEPT ![id] =
                              Returned([@ EXCEPT !.stored = TRUE])]
            /\ UNCHANGED <<marketLoading, movers, net>>
            /\ sent' = {}
       [] variant = "home" ->
            /\ loading' = FALSE
            /\ handlers' = [handlers EXCEPT ![id] =
                              Returned([@ EXCEPT !.stored = TRUE])]
            /\ IF ShouldFetchMarket(handlers[id].formData)
               THEN fetchMarketMovers(id, handlers[id].formData.api_key)
               ELSE /\ UNCHANGED <<marketLoading, movers, net>>
                    /\ sent' = {}
       [] variant = "yahoo" ->
            /\ handlers' = [handlers EXCEPT ![id].pc = "market_fetch",
                                            ![id].stored = TRUE]
            /\ net' = net \cup {Pending(MarketRequest(id, "")),
                                 Pending(NewsRequest(id, handlers[id].formData))}
            /\ sent' = {MarketRequest(id, ""),
                        NewsRequest(id, handlers[id].formData)}
            /\ UNCHANGED <<loading, marketLoading, movers>>
  /\ UNCHANGED <<rendering, variant, formData, marketMovers, news, newsLoading, error,
                 nsub, posts>>

\* `await response.json()` of a 2xx response resolves: setPrediction(data),
\* then what the variant does up to its next await or its finally.
\*   basic: returns.
\*   home:  if (formData.api_key) fetchMarketMovers(formData.api_key), not
\*          awaited; then finally setLoading(false).
\*   yahoo: the market-movers GET is issued and awaited.
PredictJsonOk(id, body) ==
  /\ handlers[id].pc = "predict_json"
  /\ body \in PredictionBodies \ {Unparseable}
  /\ prediction' = AsPredictionData(body)
  /\ last' = [op |-> "predict_json", id |-> id, body |-> body]
  /\ CASE variant = "basic" ->
            /\ loading' = FALSE
            /\ handlers' = [handlers EXCEPT ![id] =
                              Returned([@ EXCEPT !.stored = TRUE])]
            /\ UNCHANGED <<marketLoading, movers, net>>
            /\ sent' = {}
       [] variant = "home" ->
            /\ loading' = FALSE
            /\ handlers' = [handlers EXCEPT ![id] =
                              Returned([@ EXCEPT !.stored = TRUE])]
            /\ IF ShouldFetchMarket(handlers[id].formData)
               THEN fetchMarketMovers(id, handlers[id].formData.api_key)
               ELSE /\ UNCHANGED <<marketLoading, movers, net>>
                    /\ sent' = {}
       [] variant = "yahoo" ->
            /\ handlers' = [handlers EXCEPT ![id].pc = "market_fetch",
                                            ![id].stored = TRUE]
            /\ net' = net \cup {Pending(MarketRequest(id, ""))}
            /\ sent' = {MarketRequest(id, "")}
            /\ UNCHANGED <<loading, marketLoading, movers>>
  /\ UNCHANGED <<rendering, variant, formData, marketMovers, news, newsLoading, error,
                 nsub, posts>>

\* ------------------------------------- yahoo: the awaited secondary GETs
\* The market-movers fetch throwing on a non-2xx response, as the home
\* fetchMarketMovers does.
MarketFetch_ThrowsOnNotOk(id, outcome) ==
  /\ variant = "yahoo"
  /\ handlers[id].pc = "market_fetch"
  /\ outcome \in {"reject", "ok", "notok"}
  /\ net' = net \ InFlight(id, "market")
  /\ sent' = {}
  /\ last' = [op |-> "market_fetch", id |-> id, outcome |-> outcome]
  /\ CASE outcome = "reject" -> Fail(id, ErrorOf(NetworkErrorMessage))
       [] outcome = "ok" ->
            /\ handlers' = [handlers EXCEPT ![id].pc = "market_json"]
            /\ UNCHANGED <<error, loading>>
       [] outcome = "notok" -> Fail(id, ErrorOf("Failed to fetch market movers"))
  /\ UNCHANGED <<rendering, variant, formData, prediction, marketMovers, news,
                 marketLoading, newsLoading, nsub, movers, posts>>

\* `await fetch(<market-movers>)` settles.  A non-2xx response is skipped
\* (if (marketResponse.ok) has no else) and the news GET is issued.
MarketFetch(id, outcome) ==
  /\ variant = "yahoo"
  /\ handlers[id].pc = "market_fetch"
  /\ outcome \in {"reject", "ok", "notok"}
  /\ last' = [op |-> "market_fetch", id |-> id, outcome |-> outcome]
  /\ CASE outcome = "reject" ->
            /\ Fail(id, ErrorOf(NetworkErrorMessage))
            /\ net' = net \ InFlight(id, "market")
            /\ sent' = {}
       [] outcome = "ok" ->
            /\ handlers' = [handlers EXCEPT ![id].pc = "market_json"]
            /\ net' = net \ InFlight(id, "market")
            /\ sent' = {}
            /\ UNCHANGED <<error, loading>>
       [] outcome = "notok" ->
            /\ handlers' = [handlers EXCEPT ![id].pc = "news_fetch"]
            /\ net' = (net \ InFlight(id, "market"))
                        \cup {Pending(NewsRequest(id, handlers[id].formData))}
            /\ sent' = {NewsRequest(id, handlers[id].formData)}
            /\ UNCHANGED <<error, loading>>
  /\ UNCHANGED <<rendering, variant, formData, prediction, marketMovers, news,
                 marketLoading, newsLoading, nsub, movers, posts>>

\* A market-movers body that does not parse being skipped like a non-2xx
\* response, the handler going on to the news GET.
MarketJsonFail_SkipsToNews(id) ==
  /\ variant = "yahoo"
  /\ handlers[id].pc = "market_json"
  /\ handlers' = [handlers EXCEPT ![id].pc = "news_fetch"]
  /\ net' = net \cup {Pending(NewsRequest(id, handlers[id].formData))}
  /\ sent' = {NewsRequest(id, handlers[id].formData)}
  /\ last' = [op |-> "market_json", id |-> id, body |-> Unparseable]
  /\ UNCHANGED <<rendering, variant, formData, prediction, marketMovers, news,
                 loading, marketLoading, newsLoading, error, nsub, movers,
                 posts>>

\* `await marketResponse.json()` rejects.
MarketJsonFail(id) ==
  /\ variant = "yahoo"
  /\ handlers[id].pc = "market_json"
  /\ Fail(id, ErrorOf(ParseErrorMessage))
  /\ last' = [op |-> "market_json", id |-> id, body |-> Unparseable]
  /\ sent' = {}
  /\ UNCHANGED <<rendering, variant, formData, prediction, marketMovers, news,
                 marketLoading, newsLoading, nsub, movers, net, posts>>

\* `await marketResponse.json()` resolves: setMarketMovers(marketData), and
\* the news GET is issued.
MarketJsonOk(id, body) ==
  /\ variant = "yahoo"
  /\ handlers[id].pc = "market_json"
  /\ body \in MarketBodies \ {Unparseable}
  /\ marketMovers' = body
  /\ handlers' = [handlers EXCEPT ![id].pc = "news_fetch"]
  /\ net' = net \cup {Pending(NewsRequest(id, handlers[id].formData))}
  /\ sent' = {NewsRequest(id, handlers[id].formData)}
  /\ last' = [op |-> "market_json", id |-> id, body |-> body]
  /\ UNCHANGED <<rendering, variant, formData, prediction, news, loading, marketLoading,
                 newsLoading, error, nsub, movers, posts>>

\* The news fetch throwing on a non-2xx response, as the home
\* fetchMarketMovers does.
NewsFetch_ThrowsOnNotOk(id, outcome) ==
  /\ variant = "yahoo"
  /\ handlers[id].pc = "news_fetch"
  /\ outcome \in {"reject", "ok", "notok"}
  /\ net' = net \ InFlight(id, "news")
  /\ sent' = {}
  /\ last' = [op |-> "news_fetch", id |-> id, outcome |-> outcome]
  /\ CASE outcome = "reject" -> Fail(id, ErrorOf(NetworkErrorMessage))
       [] outcome = "ok" ->
            /\ handlers' = [handlers EXCEPT ![id].pc = "news_json"]
            /\ UNCHANGED <<error, loading>>
       [] outcome = "notok" -> Fail(id, ErrorOf("Failed to fetch news"))
  /\ UNCHANGED <<rendering, variant, formData, prediction, marketMovers, news,
                 marketLoading, newsLoading, nsub, movers, posts>>

\* `await fetch(<news>)` settles.  A non-2xx response is skipped and the
\* handler reaches its finally.
NewsFetch(id, outcome) ==
  /\ variant = "yahoo"
  /\ handlers[id].pc = "news_fetch"
  /\ outcome \in {"reject", "ok", "notok"}
  /\ net' = net \ InFlight(id, "news")
  /\ sent' = {}
  /\ last' = [op |-> "news_fetch", id |-> id, outcome |-> outcome]
  /\ CASE outcome = "reject" -> Fail(id, ErrorOf(NetworkErrorMessage))
       [] outcome = "ok" ->
            /\ handlers' = [handlers EXCEPT ![id].pc = "news_json"]
            /\ UNCHANGED <<error, loading>>
       [] outcome = "notok" ->
            /\ Finish(id)
            /\ UNCHANGED error
  /\ UNCHANGED <<rendering, variant, formData, prediction, marketMovers, news,
                 marketLoading, newsLoading, nsub, movers, posts>>

\* `await newsResponse.json()` rejects.
NewsJsonFail(id) ==
  /\ variant = "yahoo"
  /\ handlers[id].pc = "news_json"
  /\ Fail(id, ErrorOf(ParseErrorMessage))
  /\ last' = [op |-> "news_json", id |-> id, body |-> Unparseable]
  /\ sent' = {}
  /\ UNCHANGED <<rendering, variant, formData, prediction, marketMovers, news,
                 marketLoading, newsLoading, nsub, movers, net, posts>>

\* `await newsResponse.json()` resolves: setNews(newsData), then finally.
NewsJsonOk(id, body) ==
  /\ variant = "yahoo"
  /\ handlers[id].pc = "news_json"
  /\ body \in NewsBodies \ {Unparseable}
  /\ news' = body
  /\ Finish(id)
  /\ last' = [op |-> "news_json", id |-> id, body |-> body]
  /\ sent' = {}
  /\ UNCHANGED <<rendering, variant, formData, prediction, marketMovers, marketLoading,
                 newsLoading, error, nsub, movers, net, posts>>

\* ------------------------------------------- home: fetchMarketMovers
\* A catch that only logs the exception (console.error).
MoverFail_LogOnly(id, err) ==
  /\ error' = error
  /\ marketLoading' = FALSE
  /\ movers' = [movers EXCEPT ![id] = [pc |-> "done", apiKey |-> ""]]

\* catch (err) { setError(...) } finally { setMarketLoading(false) }
MoverFail(id, err) ==
  /\ error' = Str(CaughtMessage(err))
  /\ marketLoading' = FALSE
  /\ movers' = [movers EXCEPT ![id] = [pc |-> "done", apiKey |-> ""]]

\* `await fetch(<market-movers>)` settles; a non-2xx response throws
\* new Error("Failed to fetch market data").
MoverFetch(id, outcome) ==
  /\ variant = "home"
  /\ movers[id].pc = "fetch"
  /\ outcome \in {"reject", "ok", "notok"}
  /\ net' = net \ InFlight(id, "market")
  /\ sent' = {}
  /\ last' = [op |-> "mover_fetch", id |-> id, outcome |-> outcome]
  /\ CASE outcome = "reject" -> MoverFail(id, ErrorOf(NetworkErrorMessage))
       [] outcome = "notok" -> MoverFail(id, ErrorOf(MarketFallbackMessage))
       [] outcome = "ok" ->
            /\ movers' = [movers EXCEPT ![id].pc = "json"]
            /\ UNCHANGED <<error, marketLoading>>
  /\ UNCHANGED <<rendering, variant, formData, prediction, marketMovers, news, loading,
                 newsLoading, nsub, handlers, posts>>

\* `await response.json()` rejects.
MoverJsonFail(id) ==
  /\ variant = "home"
  /\ movers[id].pc = "json"
  /\ MoverFail(id, ErrorOf(ParseErrorMessage))
  /\ last' = [op |-> "mover_json", id |-> id, body |-> Unparseable]
  /\ sent' = {}
  /\ UNCHANGED <<rendering, variant, formData, prediction, marketMovers, news, loading,
                 newsLoading, nsub, handlers, net, posts>>

\* A fetchMarketMovers that validates the body and throws on a mismatch.
MoverJsonOk_Validated(id, body) ==
  /\ variant = "home"
  /\ movers[id].pc = "json"
  /\ body \in MarketBodies \ {Unparseable}
  /\ IF DOMAIN body.fields = DeclaredFields("market", variant)
     THEN /\ marketMovers' = body
          /\ marketLoading' = FALSE
          /\ movers' = [movers EXCEPT ![id] = [pc |-> "done", apiKey |-> ""]]
          /\ error' = error
     ELSE /\ MoverFail(id, ErrorOf(MarketFallbackMessage))
          /\ marketMovers' = marketMovers
  /\ last' = [op |-> "mover_json", id |-> id, body |-> body]
  /\ sent' = {}
  /\ UNCHANGED <<rendering, variant, formData, prediction, news, loading, newsLoading,
                 nsub, handlers, net, posts>>

\* A fetchMarketMovers that hands its body to setNewsSentiment.
MoverJsonOk_StoresNews(id, body) ==
  /\ variant = "home"
  /\ movers[id].pc = "json"
  /\ body \in MarketBodies \ {Unparseable}
  /\ news' = body
  /\ marketLoading' = FALSE
  /\ movers' = [movers EXCEPT ![id] = [pc |-> "done", apiKey |-> ""]]
  /\ last' = [op |-> "mover_json", id |-> id, body |-> body]
  /\ sent' = {}
  /\ UNCHANGED <<rendering, variant, formData, prediction, marketMovers,
                 loading, newsLoading, error, nsub, handlers, net, posts>>

\* A fetchMarketMovers whose success also clears the error.
MoverJsonOk_ClearsError(id, body) ==
  /\ variant = "home"
  /\ movers[id].pc = "json"
  /\ body \in MarketBodies \ {Unparseable}
  /\ marketMovers' = body
  /\ error' = Null
  /\ marketLoading' = FALSE
  /\ movers' = [movers EXCEPT ![id] = [pc |-> "done", apiKey |-> ""]]
  /\ last' = [op |-> "mover_json", id |-> id, body |-> body]
  /\ sent' = {}
  /\ UNCHANGED <<rendering, variant, formData, prediction, news, loading,
                 newsLoading, nsub, handlers, net, posts>>

\* `await response.json()` resolves: setMarketMovers(data), then finally.
MoverJsonOk(id, body) ==
  /\ variant = "home"
  /\ movers[id].pc = "json"
  /\ body \in MarketBodies \ {Unparseable}
  /\ marketMovers' = body
  /\ marketLoading' = FALSE
  /\ movers' = [movers EXCEPT ![id] = [pc |-> "done", apiKey |-> ""]]
  /\ last' = [op |-> "mover_json", id |-> id, body |-> body]
  /\ sent' = {}
  /\ UNCHANGED <<rendering, variant, formData, prediction, news, loading, newsLoading,
                 error, nsub, handlers, net, posts>>

\* ---------------------------------------------------------------- system
Outcomes == {"reject", "ok", "notok"}
FieldNames == {"base_currency", "symbol", "timeframe", "period", "api_key"}

Next ==
  \/ \E name \in FieldNames :
       \E value \in FieldInputs(variant, name) : ChangeField(name, value)
  \/ Submit
  \/ \E id \in Subs, o \in Outcomes : PredictFetch(id, o)
  \/ \E id \in Subs, b \in ErrorBodies : PredictErrJson(id, b)
  \/ \E id \in Subs : PredictJsonFail(id)
  \/ \E id \in Subs, b \in PredictionBodies : PredictJsonOk(id, b)
  \/ \E id \in Subs, o \in Outcomes : MarketFetch(id, o)
  \/ \E id \in Subs : MarketJsonFail(id)
  \/ \E id \in Subs, b \in MarketBodies : MarketJsonOk(id, b)
  \/ \E id \in Subs, o \in Outcomes : NewsFetch(id, o)
  \/ \E id \in Subs : NewsJsonFail(id)
  \/ \E id \in Subs, b \in NewsBodies : NewsJsonOk(id, b)
  \/ \E id \in Subs, o \in Outcomes : MoverFetch(id, o)
  \/ \E id \in Subs : MoverJsonFail(id)
  \/ \E id \in Subs, b \in MarketBodies : MoverJsonOk(id, b)

Spec == Init /\ [][Next]_vars

\* A pending fetch settles (resolves or rejects) or a body read settles, and
\* the continuation that awaits it runs.
Respond ==
  \/ \E id \in Subs, o \in Outcomes : PredictFetch(id, o)
  \/ \E id \in Subs, b \in ErrorBodies : PredictErrJson(id, b)
  \/ \E id \in Subs : PredictJsonFail(id)
  \/ \E id \in Subs, b \in PredictionBodies : PredictJsonOk(id, b)
  \/ \E id \in Subs, o \in Outcomes : MarketFetch(id, o)
  \/ \E id \in Subs : MarketJsonFail(id)
  \/ \E id \in Subs, b \in MarketBodies : MarketJsonOk(id, b)
  \/ \E id \in Subs, o \in Outcomes : NewsFetch(id, o)
  \/ \E id \in Subs : NewsJsonFail(id)
  \/ \E id \in Subs, b \in NewsBodies : NewsJsonOk(id, b)
  \/ \E id \in Subs, o \in Outcomes : MoverFetch(id, o)
  \/ \E id \in Subs : MoverJsonFail(id)
  \/ \E id \in Subs, b \in MarketBodies : MoverJsonOk(id, b)

\* The dispatcher with every request settling in the end: no promise stays
\* pending forever, and the event loop runs each continuation.  Of the form
\* only api_key is edited here, the one field that decides whether a
\* request is issued (home: if (formData.api_key) fetchMarketMovers(...)).
FairNext ==
  \/ \E value \in FieldInputs(variant, "api_key") :
       ChangeField("api_key", value)
  \/ Submit
  \/ Respond

FairSpec == Init /\ [][FairNext]_vars /\ WF_vars(Respond)

\* =========================================================== rendering
\* The view is a function of the payloads; its formatting rules are pure
\* functions of one field each.  They are applied here to inputs drawn from
\* bounded sets, under the specification RenderSpec.

\* ------------------------------------------------------ String.prototype
UpperCaseLetters == "ABCDEFGHIJKLMNOPQRSTUVWXYZ"
LowerCaseLetters == "abcdefghijklmnopqrstuvwxyz"
DecimalDigits == "0123456789"

\* s.charAt(i), s.substring(start, end): zero-based, end exclusive.
charAt(s, i) == SubSeq(s, i + 1, i + 1)
substring(s, start, end) ==
  SubSeq(s, start + 1, IF end < Len(s) THEN end ELSE Len(s))

RECURSIVE Concat(_)
Concat(parts) ==
  IF Len(parts) = 0 THEN "" ELSE Head(parts) \o Concat(Tail(parts))

\* The lower-case mapping of one character (ASCII letters).
LowerChar(c) ==
  IF \E i \in 0..25 : charAt(UpperCaseLetters, i) = c
  THEN charAt(LowerCaseLetters,
              CHOOSE i \in 0..25 : charAt(UpperCaseLetters, i) = c)
  ELSE c

\* A comparison that folds no case.
toLowerCase_Identity(s) == s

\* s.toLowerCase()
toLowerCase(s) == Concat([i \in 1..Len(s) |-> LowerChar(charAt(s, i - 1))])

\* s.includes(w)
includes(s, w) ==
  \E i \in 0..(Len(s) - Len(w)) : substring(s, i, i + Len(w)) = w

\* ------------------------------------------------------- IndicatorCard
Green == "bg-green-100 text-green-800"
Red == "bg-red-100 text-red-800"
Gray == "bg-gray-100 text-gray-800"
NoBadge == "no badge"

\* The ternary with the negative keywords tested first.
SignalClassName_BearFirst(signal) ==
  IF \/ includes(toLowerCase(signal), "bear")
     \/ includes(toLowerCase(signal), "weak")
     \/ signal = "Oversold"
  THEN Red
  ELSE IF \/ includes(toLowerCase(signal), "bull")
          \/ includes(toLowerCase(signal), "strong")
          \/ signal = "Overbought"
       THEN Green
       ELSE Gray

\* The className ternary of the signal badge, the same in the three files.
SignalClassName(signal) ==
  IF \/ includes(toLowerCase(signal), "bull")
     \/ includes(toLowerCase(signal), "strong")
     \/ signal = "Overbought"
  THEN Green
  ELSE IF \/ includes(toLowerCase(signal), "bear")
          \/ includes(toLowerCase(signal), "weak")
          \/ signal = "Oversold"
       THEN Red
       ELSE Gray

\* {signal && <span className=...>}: no badge for an empty signal.
SignalBadge(signal) ==
  IF signal = "" THEN NoBadge ELSE SignalClassName(signal)

\* ------------------------------------------------- direction glyphs
\* What is drawn for a direction: the icon, its class and the class of the
\* text beside it.
Glyph(icon, iconClass, textClass) ==
  [icon |-> icon, iconClass |-> iconClass, textClass |-> textClass]

\* {prediction.prediction === "UP" ? <TrendingUp .../> : <TrendingDown .../>}
PredictionGlyph(value) ==
  IF value = "UP"
  THEN Glyph("TrendingUp", "text-green-500", "text-green-600")
  ELSE Glyph("TrendingDown", "text-red-500", "text-red-600")

\* A forecast row that draws the down arrow for "DOWN" alone and nothing
\* for any other value.
ForecastGlyph_ThreeWay(direction) ==
  CASE direction = "UP" -> Glyph("ArrowUp", "text-green-500", "text-green-600")
    [] direction = "DOWN" -> Glyph("ArrowDown", "text-red-500", "text-red-600")
    [] OTHER -> Glyph("none", "", "")

\* {point.direction === "UP" ? <ArrowUp .../> : <ArrowDown .../>}
ForecastGlyph(direction) ==
  IF direction = "UP"
  THEN Glyph("ArrowUp", "text-green-500", "text-green-600")
  ELSE Glyph("ArrowDown", "text-red-500", "text-red-600")

\* ------------------------------------------------------------ NewsCard
\* A switch that folds the case of the label.
getSentimentColor_IgnoreCase(label) ==
  CASE toLowerCase(label) \in {"bullish", "somewhat-bullish"} -> Green
    [] toLowerCase(label) \in {"bearish", "somewhat-bearish"} -> Red
    [] OTHER -> Gray

\* switch (label) { case ...: return ...; default: ... }
getSentimentColor(label) ==
  CASE label \in {"Bullish", "Somewhat-Bullish"} -> Green
    [] label \in {"Bearish", "Somewhat-Bearish"} -> Red
    [] OTHER -> Gray

\* ---------------------------------------------------------------- Date
\* A Date is its time value: NaN (Invalid Date), or here always midnight
\* UTC of a calendar day.
InvalidDate == [kind |-> "invalid"]
UTCMidnight(y, m, d) == [kind |-> "date", y |-> y, m |-> m, d |-> d]

\* What toLocaleDateString returns for a valid Date: the calendar day in the
\* local time zone, in the locale's format (left abstract).
LocaleDate(y, m, d) == [kind |-> "localedate", y |-> y, m |-> m, d |-> d]

IsLeapYear(y) == (y % 4 = 0 /\ y % 100 # 0) \/ y % 400 = 0
DaysInMonth(y, m) ==
  CASE m = 2 -> IF IsLeapYear(y) THEN 29 ELSE 28
    [] m \in {4, 6, 9, 11} -> 30
    [] OTHER -> 31

IsDigits(s) ==
  \A i \in 0..(Len(s) - 1) :
    \E k \in 0..9 : charAt(DecimalDigits, k) = charAt(s, i)
DigitValue(c) == CHOOSE k \in 0..9 : charAt(DecimalDigits, k) = c
RECURSIVE ToNumber(_)
ToNumber(s) ==
  IF Len(s) = 0 THEN 0
  ELSE 10 * ToNumber(SubSeq(s, 1, Len(s) - 1)) + DigitValue(charAt(s, Len(s) - 1))

\* Date.parse of a day the month does not have (02-30, 02-29 off a leap
\* year) is left to the engine: NaN in some, the day rolled over into the
\* next month in others.
Engines == {"strict", "rollover"}

\* new Date(`${year}-${month}-${day}`): the date-only ISO form is read as
\* midnight UTC; text that is not of that form gives Invalid Date.  The
\* constructor does not throw.
NewDate(text, engine) ==
  LET year == substring(text, 0, 4)
      month == substring(text, 5, 7)
      day == substring(text, 8, 10)
  IN IF ~(/\ Len(text) = 10
          /\ charAt(text, 4) = "-" /\ charAt(text, 7) = "-"
          /\ IsDigits(year) /\ IsDigits(month) /\ IsDigits(day))
     THEN InvalidDate
     ELSE LET y == ToNumber(year)
              m == ToNumber(month)
              d == ToNumber(day)
          IN IF m \notin 1..12 \/ d \notin 1..31 THEN InvalidDate
             ELSE IF d <= DaysInMonth(y, m) THEN UTCMidnight(y, m, d)
             ELSE IF engine = "rollover"
                  THEN UTCMidnight(y, m + 1, d - DaysInMonth(y, m))
                  ELSE InvalidDate

\* The UTC offsets, in hours, of the time zone the browser runs in.
TimeZoneOffsets == {-5, 0, 7}

\* The calendar day before y-m-d.
PreviousDay(y, m, d) ==
  IF d > 1 THEN <<y, m, d - 1>>
  ELSE IF m > 1 THEN <<y, m - 1, DaysInMonth(y, m - 1)>>
  ELSE <<y - 1, 12, 31>>

\* date.toLocaleDateString(): "Invalid Date" for NaN (it does not throw);
\* otherwise the local calendar day of the instant, which for midnight UTC
\* is the day before in a zone west of Greenwich.
toLocaleDateString(date, tz) ==
  IF date = InvalidDate THEN Str("Invalid Date")
  ELSE IF tz < 0
       THEN LET p == PreviousDay(date.y, date.m, date.d)
            IN LocaleDate(p[1], p[2], p[3])
       ELSE LocaleDate(date.y, date.m, date.d)

\* formatDate of NewsCard.  Nothing in the try block throws, so the catch,
\* which would return dateString, is never entered.
formatDate(dateString, tz, engine) ==
  IF dateString = "" \/ Len(dateString) < 8 THEN Str("N/A")
  ELSE LET year == substring(dateString, 0, 4)
           month == substring(dateString, 4, 6)
           day == substring(dateString, 6, 8)
       IN toLocaleDateString(
            NewDate(year \o "-" \o month \o "-" \o day, engine), tz)

\* ------------------------------------------------- what is rendered
\* Signals: up to MaxTokens of these pieces, joined.
SignalTokens ==
  { "Overbought", "Oversold", "overbought", "Neutral", "bullish", " trend",
    "Bearish", " Weak", "STRONG", "bu", "ll" }
SignalInputs ==
  { Concat(t) : t \in UNION { [1..n -> SignalTokens] : n \in 0..MaxTokens } }

SentimentLabels ==
  { "Bullish", "Somewhat-Bullish", "Bearish", "Somewhat-Bearish", "Neutral",
    "bullish", "BEARISH", "somewhat-bearish", "Mixed", "" }

\* time_published values: year, month, day and remainder pieces joined, and
\* texts shorter than 8 characters.
YearTexts == {"2025", "2024", "20a5"}
MonthTexts == {"01", "02", "03", "13"}
DayTexts == {"00", "01", "24", "29", "30"}
RestTexts == {"", "T231000", "T000000"}
ShortTexts == {"", "2025", "2025022"}
Timestamps ==
  ShortTexts \cup
    { y \o m \o d \o r :
        y \in YearTexts, m \in MonthTexts, d \in DayTexts, r \in RestTexts }

\* prediction.prediction and point.direction values: the two declared ones,
\* the same in other letter case, and others.
DirectionInputs == {"UP", "DOWN", "up", "Up", "down", "FLAT", ""}

\* The widgets a dashboard can render: <IndicatorCard signal={...} /> in
\* each of the three, <NewsCard article={...} /> in home only, with its
\* sentiment badge and its formatDate(article.time_published).
Widgets(v) ==
  { Props("IndicatorCard", signal, 0, "") : signal \in SignalInputs }
  \cup
  { Props("Direction", value, 0, "") : value \in DirectionInputs }
  \cup
  { Props("ForecastTable.direction", value, 0, "") : value \in DirectionInputs }
  \cup
  IF v # "home" THEN {}
  ELSE { Props("NewsCard.sentiment", label, 0, "") : label \in SentimentLabels }
       \cup
       { Props("NewsCard.date", dateString, tz, engine) :
           dateString \in Timestamps, tz \in TimeZoneOffsets,
           engine \in Engines }

RenderInit ==
  /\ InitDispatcher
  /\ rendering \in Widgets(variant)

RenderIndicatorCard ==
  /\ rendering.component = "IndicatorCard"
  /\ ~rendering.done
  /\ rendering' = Rendered(rendering, SignalBadge(rendering.input))
  /\ UNCHANGED dispatcher

RenderSentimentLabel ==
  /\ rendering.component = "NewsCard.sentiment"
  /\ ~rendering.done
  /\ rendering' = Rendered(rendering, getSentimentColor(rendering.input))
  /\ UNCHANGED dispatcher

RenderTimePublished ==
  /\ rendering.component = "NewsCard.date"
  /\ ~rendering.done
  /\ rendering' = Rendered(rendering,
                           formatDate(rendering.input, rendering.tz,
                                      rendering.engine))
  /\ UNCHANGED dispatcher

\* The Direction block of the prediction card, in each dashboard.
RenderDirection ==
  /\ rendering.component = "Direction"
  /\ ~rendering.done
  /\ rendering' = Rendered(rendering, PredictionGlyph(rendering.input))
  /\ UNCHANGED dispatcher

\* The direction cell of a forecast row, in each dashboard.
RenderForecastDirection ==
  /\ rendering.component = "ForecastTable.direction"
  /\ ~rendering.done
  /\ rendering' = Rendered(rendering, ForecastGlyph(rendering.input))
  /\ UNCHANGED dispatcher

RenderNext ==
  \/ RenderIndicatorCard
  \/ RenderDirection
  \/ RenderForecastDirection
  \/ RenderSentimentLabel
  \/ RenderTimePublished

RenderSpec == RenderInit /\ [][RenderNext]_vars

\* ================================================================ claims
\* The steps of handleSubmit, recognised from the positions before and after.
SubmitStep == nsub' # nsub
LeavesPc(id, pc) == handlers[id].pc = pc /\ handlers'[id].pc # pc

\* ------------------------------------------------------------------- C1
\* C1: in every variant the submit handler sets loading to true and error to
\* null, and changes none of the stored payloads (prediction, market
\* movers, news).
C1_SubmitSetsLoadingClearsError ==
  [][SubmitStep =>
       /\ loading' = TRUE
       /\ error' = Null
       /\ prediction' = prediction
       /\ marketMovers' = marketMovers
       /\ news' = news]_vars

\* A second submit, after the first submission failed and left its error,
\* has cleared that error.
C1_Witness ==
  /\ last.op = "submit"
  /\ nsub = 2
  /\ handlers[1].pc = "done"
  /\ ~handlers[1].stored
  /\ loading
  /\ error = Null

\* ------------------------------------------------------------------- C2
\* C2: the POST body of a submission is the form state at the submit, and
\* the secondary requests of that submission carry the symbol (yahoo news)
\* or api_key (home market movers) the form had at that same submit, whatever
\* the user changes in the form while requests are in flight.
Issued(kind) == {r \in sent' : r.kind = kind}
Running(h) == h.pc \notin {"idle", "done"}

C2_RequestsCarrySubmittedForm ==
  [][/\ SubmitStep =>
          /\ Issued("predict") # {}
          /\ \A r \in Issued("predict") :
               /\ r.id = nsub'
               /\ r.body = JSONstringify(formData, FormKeys(variant))
          /\ \A k \in ReadAfterAwait(variant) :
               handlers'[nsub'].formData[k] = formData[k]
     /\ \A id \in Subs :
          (Running(handlers[id]) /\ Running(handlers'[id]))
             => handlers'[id].formData = handlers[id].formData
     /\ \A r \in Issued("news") :
          r.query = <<"symbol", handlers[r.id].formData.symbol>>
     /\ \A r \in Issued("market") :
          variant = "home" =>
            r.query = <<"api_key", handlers[r.id].formData.api_key>>]_vars

\* A news request just issued whose symbol is the one submitted, no longer
\* the one in the form.
C2_Witness ==
  \E r \in sent :
    /\ r.kind = "news"
    /\ r.query[2] # formData.symbol
    /\ r.query[2] = handlers[r.id].formData.symbol

\* ------------------------------------------------------------------- C3
\* The step in which the handler has read the body of a non-2xx prediction
\* response; last'.body is that body.
NotOkBodyStep(id) == LeavesPc(id, "predict_errjson") /\ last'.id = id
HasDetail(body) == body.kind = "object" /\ "detail" \in DOMAIN body.fields

\* C3 as stated: for a non-2xx prediction response with a JSON body, error
\* becomes the detail value if the body has one and the fallback message if
\* not; prediction is not updated and loading ends false.
C3_DetailOrFallback_AsStated ==
  [][\A id \in Subs :
       (NotOkBodyStep(id) /\ last'.body # Unparseable) =>
          /\ error' = IF HasDetail(last'.body)
                      THEN last'.body.fields.detail
                      ELSE Str(FallbackMessage)
          /\ prediction' = prediction
          /\ loading' = FALSE]_vars

\* C3 amended: for a non-2xx prediction response whose body is a JSON
\* object, error becomes the detail string if it is non-empty, and the
\* fallback message if detail is absent or empty; for the JSON body null,
\* error is the message of the exception the read of detail throws.  In
\* each case prediction is not updated and loading ends false.
C3_DetailOrFallback ==
  [][\A id \in Subs :
       (NotOkBodyStep(id) /\ last'.body # Unparseable) =>
          /\ last'.body.kind = "object" =>
               error' = IF HasDetail(last'.body)
                           /\ last'.body.fields.detail # Str("")
                        THEN last'.body.fields.detail
                        ELSE Str(FallbackMessage)
          /\ last'.body = Null => error' = Str(NullReadMessage)
          /\ prediction' = prediction
          /\ loading' = FALSE]_vars

\* The detail of a non-2xx body is shown while an earlier prediction stays.
C3_Witness ==
  /\ last.op = "predict_errjson"
  /\ last.body = Obj([detail |-> Str("Invalid symbol")])
  /\ error = Str("Invalid symbol")
  /\ prediction # Null
  /\ ~loading

\* ------------------------------------------------------------------- C4
\* C4 as stated: a non-2xx prediction response whose body is not JSON sets
\* error to the fallback message "Failed to fetch prediction".
C4_ParseFailureFallback_AsStated ==
  [][\A id \in Subs :
       (NotOkBodyStep(id) /\ last'.body = Unparseable) =>
          error' = Str(FallbackMessage)]_vars

\* C4 amended: a non-2xx prediction response whose body is not JSON sets
\* error to the message of the exception response.json() throws, which is
\* not the fallback message; prediction is not updated and loading ends
\* false.
C4_ParseFailureMessage ==
  [][\A id \in Subs :
       (NotOkBodyStep(id) /\ last'.body = Unparseable) =>
          /\ error' = Str(ParseErrorMessage)
          /\ error' # Str(FallbackMessage)
          /\ prediction' = prediction
          /\ loading' = FALSE]_vars

C4_Witness ==
  /\ last.op = "predict_errjson"
  /\ last.body = Unparseable
  /\ error = Str(ParseErrorMessage)
  /\ ~loading

\* ------------------------------------------------------------------- C5
\* The step in which the handler has parsed the body of a 2xx prediction
\* response; last'.body is that body.
OkBodyStep(id) ==
  LeavesPc(id, "predict_json") /\ last'.id = id /\ last'.body # Unparseable

\* C5 as stated: on a 2xx prediction response with a parseable body, the
\* prediction state becomes that body, the loading flag is cleared, and the
\* error state is null.
C5_SuccessStoresBody_AsStated ==
  [][\A id \in Subs :
       OkBodyStep(id) =>
          /\ prediction' = last'.body
          /\ loading' = FALSE
          /\ error' = Null]_vars

\* C5 amended: on a 2xx prediction response with a parseable body, the
\* prediction state becomes exactly that body and the step leaves the error
\* state as it was.  In the basic and home variants loading is cleared in
\* that step; in the yahoo variant loading stays true, the handler going on
\* to await its market-movers request.  In the basic and yahoo variants the
\* error state is null after the step.
C5_SuccessStoresBody ==
  [][\A id \in Subs :
       OkBodyStep(id) =>
          /\ prediction' = last'.body
          /\ error' = error
          /\ variant \in {"basic", "home"} => loading' = FALSE
          /\ variant = "yahoo" =>
               (loading' = TRUE /\ handlers'[id].pc = "market_fetch")
          /\ variant \in {"basic", "yahoo"} => error' = Null]_vars

\* A second submission's body has replaced the first one's.
C5_Witness ==
  /\ last.op = "predict_json"
  /\ last.id = 2
  /\ last.body = Obj([prediction |-> Str("DOWN")])
  /\ prediction = last.body
  /\ handlers[1].stored
  /\ handlers[2].stored

\* ------------------------------------------------------------------- C6
\* {error && <Alert ...>}
AlertShown == Truthy(error)

\* The step in which the prediction request of a submission fails: the
\* handler returns from one of its prediction awaits without having stored.
PredictionFailureStep(id) ==
  /\ handlers[id].pc \in {"predict_fetch", "predict_errjson", "predict_json"}
  /\ handlers'[id].pc = "done"
  /\ ~handlers'[id].stored

\* C6: every failure of the prediction request (the fetch rejects, a non-2xx
\* response with or without a parseable body, a 2xx body that does not
\* parse) is caught: the handler ends with error a non-null string, which
\* the alert banner shows, and loading false; the banner is shown iff error
\* is non-null; each submission issues exactly one POST.
C6_FailuresCaughtNoRetry ==
  [][/\ \A id \in Subs :
          PredictionFailureStep(id) =>
             /\ error'.kind = "string"
             /\ AlertShown'
             /\ loading' = FALSE
             /\ posts'[id] = 1
     /\ AlertShown' <=> error' # Null
     /\ \A id \in Subs : posts'[id] = IF id <= nsub' THEN 1 ELSE 0]_vars

\* A 2xx body that did not parse, caught.
C6_Witness ==
  /\ last.op = "predict_json"
  /\ last.body = Unparseable
  /\ error = Str(ParseErrorMessage)
  /\ AlertShown
  /\ ~loading
  /\ posts[last.id] = 1

\* ------------------------------------------------------------------- C7
MarketPending(id) ==
  \/ handlers[id].pc \in {"market_fetch", "market_json"}
  \/ movers[id].pc \in {"fetch", "json"}
NewsPending(id) == handlers[id].pc \in {"news_fetch", "news_json"}

\* C7: a market-movers or news request belongs to a submission whose
\* prediction POST succeeded (2xx, body parsed and stored); in the home
\* variant the market-movers request carries a non-empty api_key; a
\* submission whose prediction failed has no secondary request.
C7_SecondaryOnlyAfterSuccess ==
  /\ \A r \in net \cup sent :
       r.kind \in {"market", "news"} =>
          /\ handlers[r.id].stored
          /\ prediction # Null
  /\ \A r \in sent :
       (r.kind = "market" /\ variant = "home") =>
          (r.query[1] = "api_key" /\ r.query[2] # "")
  /\ \A id \in Subs : movers[id].pc \in {"fetch", "json"} => movers[id].apiKey # ""
  /\ \A id \in Subs :
       ~handlers[id].stored =>
          /\ ~MarketPending(id)
          /\ ~NewsPending(id)
          /\ movers[id].pc = "idle"
          /\ InFlight(id, "market") = {}
          /\ InFlight(id, "news") = {}

\* home: one submission with an api_key has its market-movers request in
\* flight, another with the api_key emptied has stored without one.
C7_Witness ==
  /\ variant = "home"
  /\ \E r \in net : r.kind = "market" /\ r.id = 1
  /\ handlers[2].stored
  /\ movers[2].pc = "idle"

SecondaryFailure(l) ==
  \/ /\ l.op \in {"mover_fetch", "market_fetch", "news_fetch"}
     /\ l.outcome = "reject"
  \/ /\ l.op = "mover_fetch"
     /\ l.outcome = "notok"
  \/ /\ l.op \in {"mover_json", "market_json", "news_json"}
     /\ l.body = Unparseable

\* The message of the exception that failure throws.
FailureMessage(l) ==
  IF l.op \in {"mover_fetch", "market_fetch", "news_fetch"}
  THEN (IF l.outcome = "reject" THEN NetworkErrorMessage
        ELSE MarketFallbackMessage)
  ELSE ParseErrorMessage

\* C9: in the home and yahoo dashboards a secondary request that fails
\* writes its message into the one error state although the prediction of
\* its submission was stored, and the prediction stays stored.
C9_SecondaryFailureSetsSharedError ==
  [][SecondaryFailure(last') =>
       /\ error' = Str(FailureMessage(last'))
       /\ handlers[last'.id].stored
       /\ prediction' = prediction
       /\ prediction' # Null]_vars

\* The prediction is stored and the error of a failed secondary request is
\* shown next to it.
C9_Witness ==
  /\ SecondaryFailure(last)
  /\ handlers[last.id].stored
  /\ prediction # Null
  /\ error = Str(FailureMessage(last))

\* ------------------------------------------------------------------ C10
\* The event ends a request: its fetch rejected, its non-2xx response was
\* handled, or its body was read.
EndsRequest(l) ==
  \/ /\ l.op \in {"predict_fetch", "market_fetch", "news_fetch"}
     /\ l.outcome = "reject"
  \/ /\ l.op \in {"market_fetch", "news_fetch"}
     /\ l.outcome = "notok"
  \/ /\ l.op = "mover_fetch"
     /\ l.outcome \in {"reject", "notok"}
  \/ l.op \in {"predict_errjson", "predict_json", "market_json",
               "mover_json", "news_json"}

\* The event delivered the parsed body of a 2xx response.
DeliversPayload(l) ==
  /\ l.op \in {"predict_json", "market_json", "mover_json", "news_json"}
  /\ l.body # Unparseable

\* The non-2xx response to a yahoo secondary GET.
SkippedResponse(l) ==
  /\ l.op \in {"market_fetch", "news_fetch"}
  /\ l.outcome = "notok"

\* The payload slot of the event's request type, after the step.
PayloadAfter(l) ==
  CASE l.op \in {"predict_fetch", "predict_errjson", "predict_json"} -> prediction'
    [] l.op \in {"market_fetch", "market_json", "mover_fetch", "mover_json"} ->
         marketMovers'
    [] OTHER -> news'

\* A payload is stored only by a request of its type that is being read,
\* an error only while some request is pending, and a pending prediction
\* request has loading true.
StoredOnlyWhileLoading ==
  /\ prediction' # prediction =>
       \E id \in Subs : handlers[id].pc = "predict_json"
  /\ marketMovers' # marketMovers =>
       \E id \in Subs : handlers[id].pc = "market_json" \/ movers[id].pc = "json"
  /\ news' # news => \E id \in Subs : handlers[id].pc = "news_json"
  /\ (error' # error /\ error' # Null) =>
       \E id \in Subs :
         Running(handlers[id]) \/ movers[id].pc \in {"fetch", "json"}
  /\ \A id \in Subs :
       handlers'[id].pc \in {"predict_fetch", "predict_errjson", "predict_json"}
          => loading'

\* C10 as stated: a payload or error is stored only after its request type
\* entered Loading, and every response that arrives moves the request to
\* exactly one of Success (payload stored, error untouched) or Failed (an
\* error message stored, payloads untouched).
C10_Lifecycle_AsStated ==
  [][/\ StoredOnlyWhileLoading
     /\ EndsRequest(last') =>
          IF DeliversPayload(last')
          THEN PayloadAfter(last') = last'.body /\ error' = error
          ELSE /\ error' # Null
               /\ <<prediction, marketMovers, news>>' =
                    <<prediction, marketMovers, news>>]_vars

\* C10 amended: as stated, except that in the yahoo variant a non-2xx
\* response to the market-movers or news GET ends the request in neither
\* Success nor Failed: no payload and no error is stored.
C10_Lifecycle ==
  [][/\ StoredOnlyWhileLoading
     /\ EndsRequest(last') =>
          IF DeliversPayload(last')
          THEN PayloadAfter(last') = last'.body /\ error' = error
          ELSE /\ IF SkippedResponse(last')
                  THEN error' = error /\ error' = Null
                  ELSE error' # Null /\ error'.kind = "string"
               /\ <<prediction, marketMovers, news>>' =
                    <<prediction, marketMovers, news>>]_vars

\* yahoo: the prediction succeeded, the news request got a non-2xx response,
\* and the handler has returned with no news and no error.
C10_Witness ==
  /\ last.op = "news_fetch"
  /\ last.outcome = "notok"
  /\ handlers[last.id].pc = "done"
  /\ prediction # Null
  /\ news = Null
  /\ error = Null
  /\ ~loading

\* ------------------------------------------------------------------ C11
\* The event is the failure of a prediction request that reaches the catch.
PredictionFailure(l) ==
  \/ l.op = "predict_fetch" /\ l.outcome = "reject"
  \/ l.op = "predict_errjson"
  \/ l.op = "predict_json" /\ l.body = Unparseable

\* The request type of an event.
TypeOf(l) ==
  CASE l.op \in {"predict_fetch", "predict_errjson", "predict_json"} -> "predict"
    [] l.op \in {"market_fetch", "market_json", "mover_fetch", "mover_json"} ->
         "market"
    [] l.op \in {"news_fetch", "news_json"} -> "news"
    [] OTHER -> "none"

\* C11: a request of one type that fails stores an error message and leaves
\* the stored payloads of the other request types as they were: a failed
\* market-movers or news request does not modify prediction, and a failed
\* prediction request modifies neither marketMovers nor news.
C11_FailureLeavesOtherPayloads ==
  [][(PredictionFailure(last') \/ SecondaryFailure(last')) =>
       /\ error' # Null
       /\ error'.kind = "string"
       /\ TypeOf(last') # "predict" => prediction' = prediction
       /\ TypeOf(last') # "market" => marketMovers' = marketMovers
       /\ TypeOf(last') # "news" => news' = news]_vars

\* A resubmission whose prediction request failed, with the market movers
\* and the prediction of the earlier submission still stored.
C11_Witness ==
  /\ PredictionFailure(last)
  /\ last.id > 1
  /\ error # Null
  /\ marketMovers # Null
  /\ prediction # Null

\* ------------------------------------------------------------------ C12
PredictPending(id) ==
  handlers[id].pc \in {"predict_fetch", "predict_errjson", "predict_json"}

\* C12 as stated: the user can submit again before the prediction response
\* of the earlier submission has arrived.
C12_ResubmitBeforeResponse_AsStated ==
  \A id \in Subs :
    (PredictPending(id) /\ nsub < MaxSubmits) => ENABLED Submit

\* C12 amended: the submit control is disabled while a prediction request is
\* pending, so at most one prediction request is outstanding and the
\* prediction stored is always that of the latest submission; no request is
\* cancelled or tagged: a pending request stays pending until its own
\* response is handled, and a parsed 2xx body is stored on arrival whichever
\* submission it belongs to.
C12_ResponsesAppliedOnArrival ==
  [][/\ Cardinality({id \in Subs : PredictPending(id)'}) <= 1
     /\ \A id \in Subs : PredictPending(id)' => (loading' /\ SubmitDisabled')
     /\ prediction' # prediction => last'.id = nsub
     /\ \A r \in net \ net' : r.id = last'.id /\ r.kind = TypeOf(last')
     /\ DeliversPayload(last') => PayloadAfter(last') = last'.body]_vars

\* home: the market-movers response of the first submission arrives after
\* the second submission has stored its prediction, and is stored.
C12_Witness ==
  /\ variant = "home"
  /\ last.op = "mover_json"
  /\ last.id < nsub
  /\ handlers[nsub].stored
  /\ marketMovers = last.body
  /\ marketMovers # Null

\* ------------------------------------------------------------------ C13
\* The requests issued and not yet handled: those the network holds and
\* those whose response body is being read.
Outstanding ==
  net \cup {[id |-> id, kind |-> "predict"] : id \in {j \in Subs : PredictPending(j)}}
      \cup {[id |-> id, kind |-> "market"] : id \in {j \in Subs : MarketPending(j)}}
      \cup {[id |-> id, kind |-> "news"] : id \in {j \in Subs : NewsPending(j)}}
OutstandingKinds == {r.kind : r \in Outstanding}

\* C13 as stated, for the one dashboard that issues all three request types
\* (yahoo): the requests do not wait for one another, so that while the
\* market-movers request of a submission is outstanding its news request is
\* outstanding too and a further prediction request can be started.
C13_AllThreeConcurrent_AsStated ==
  variant = "yahoo" =>
    \A id \in Subs :
      MarketPending(id) =>
        /\ NewsPending(id)
        /\ nsub < MaxSubmits => ENABLED Submit

\* C13 amended: the three request types are never all outstanding at once.
\* yahoo issues its requests one after the other with the submit control
\* disabled, so at most one request is outstanding; home issues no news
\* request and has at most one prediction request outstanding, possibly
\* together with market-movers requests; basic issues prediction requests
\* only.
C13_NeverAllThreeOutstanding ==
  /\ OutstandingKinds # {"predict", "market", "news"}
  /\ variant = "yahoo" => Cardinality(Outstanding) <= 1
  /\ variant = "home" =>
       /\ "news" \notin OutstandingKinds
       /\ Cardinality({r \in Outstanding : r.kind = "predict"}) <= 1
  /\ variant = "basic" => OutstandingKinds \subseteq {"predict"}

\* home: the prediction request of a resubmission and the market-movers
\* request of the earlier submission are outstanding together.
C13_Witness ==
  /\ variant = "home"
  /\ [id |-> 2, kind |-> "predict"] \in Outstanding
  /\ [id |-> 1, kind |-> "market"] \in Outstanding

\* ------------------------------------------------------------------ C14
DeclaresJson(r) == <<"Content-Type", "application/json">> \in r.headers

\* C14 as stated: every request issued, the prediction POST and the
\* market-movers and news GETs of every variant, declares the header
\* Content-Type: application/json.
C14_AllRequestsDeclareJson_AsStated ==
  \A r \in sent : DeclaresJson(r)

\* C14 amended: every prediction POST declares Content-Type:
\* application/json (with Accept: application/json in home and basic); the
\* market-movers and news GETs are issued with no headers at all.
C14_OnlyPostDeclaresJson ==
  \A r \in sent :
    /\ r.kind = "predict" =>
         /\ r.method = "POST"
         /\ DeclaresJson(r)
         /\ (<<"Accept", "application/json">> \in r.headers)
              <=> variant \in {"home", "basic"}
    /\ r.kind \in {"market", "news"} =>
         /\ r.method = "GET"
         /\ r.headers = {}

\* A secondary GET just issued, carrying no header.
C14_Witness ==
  \E r \in sent :
    /\ r.kind \in {"market", "news"}
    /\ r.method = "GET"
    /\ ~DeclaresJson(r)

\* ------------------------------------------------------------------ C15
\* The body is a JSON object with the fields its payload type declares.
MatchesShape(kind, body) ==
  body.kind = "object" /\ DOMAIN body.fields = DeclaredFields(kind, variant)

\* C15: no response is validated against its declared shape: every 2xx body
\* that parses as JSON, of the declared shape or not, becomes the payload
\* of its request type as it is, and the step sets no error.
C15_NoShapeValidation ==
  [][DeliversPayload(last') =>
       /\ PayloadAfter(last') = last'.body
       /\ error' = error]_vars

\* home: a market-movers body with none of the declared fields is stored,
\* beside a stored prediction body that lacks declared fields, and no error
\* is set.
C15_Witness ==
  /\ last.op = "mover_json"
  /\ last.body = Obj(EmptyFields)
  /\ marketMovers = Obj(EmptyFields)
  /\ prediction # Null
  /\ ~MatchesShape("predict", prediction)
  /\ error = Null

\* ------------------------------------------------------------------ C16
\* The widget has been rendered.
Shown(component) == rendering.component = component /\ rendering.done

\* c is the lower-case letter d or its upper-case form.
SameLetter(c, d) ==
  \/ c = d
  \/ \E i \in 1..26 :
       /\ SubSeq(LowerCaseLetters, i, i) = d
       /\ SubSeq(UpperCaseLetters, i, i) = c

\* The text contains the keyword, letter case apart.
HasKeyword(text, keyword) ==
  \E at \in 1..Len(text) :
    /\ at + Len(keyword) - 1 <= Len(text)
    /\ \A k \in 1..Len(keyword) :
         SameLetter(SubSeq(text, at + k - 1, at + k - 1),
                    SubSeq(keyword, k, k))

\* C16: for every non-empty signal, in each of the three dashboards, the
\* badge is green if the signal contains "bull" or "strong" in any letter
\* case or is exactly "Overbought"; otherwise red if it contains "bear" or
\* "weak" in any letter case or is exactly "Oversold"; otherwise gray.
\* "overbought" in lower case is gray.
C16_SignalBadgeStyle ==
  (Shown("IndicatorCard") /\ rendering.input # "") =>
     LET signal == rendering.input
     IN /\ rendering.output =
             IF \/ HasKeyword(signal, "bull")
                \/ HasKeyword(signal, "strong")
                \/ signal = "Overbought"
             THEN Green
             ELSE IF \/ HasKeyword(signal, "bear")
                     \/ HasKeyword(signal, "weak")
                     \/ signal = "Oversold"
                  THEN Red
                  ELSE Gray
        /\ signal = "overbought" => rendering.output = Gray

\* yahoo: an upper-case keyword is matched, "STRONG trend" is green.
C16_Witness ==
  /\ variant = "yahoo"
  /\ Shown("IndicatorCard")
  /\ rendering.input = "STRONG trend"
  /\ rendering.output = Green

\* ------------------------------------------------------------------ C17
\* C17: the first matching branch wins, the positive test first:
\* "Overbought" is green, "Oversold" red, "Neutral" gray, "bullish trend"
\* green, "Bearish Weak" red, and a signal with both a positive keyword
\* (bull, strong) and a negative one (bear, weak) is green.
C17_FirstMatchWins ==
  Shown("IndicatorCard") =>
     LET signal == rendering.input
         style == rendering.output
     IN /\ signal = "Overbought" => style = Green
        /\ signal = "Oversold" => style = Red
        /\ signal = "Neutral" => style = Gray
        /\ signal = "bullish trend" => style = Green
        /\ signal = "Bearish Weak" => style = Red
        /\ (/\ HasKeyword(signal, "bull") \/ HasKeyword(signal, "strong")
            /\ HasKeyword(signal, "bear") \/ HasKeyword(signal, "weak"))
             => style = Green

\* A signal with a keyword of each side, rendered green.
C17_Witness ==
  /\ Shown("IndicatorCard")
  /\ rendering.input = "Bearish" \o "STRONG"
  /\ rendering.output = Green

\* ------------------------------------------------------------------ C18
\* C18: the sentiment badge is green for "Bullish" and "Somewhat-Bullish",
\* red for "Bearish" and "Somewhat-Bearish", and gray for "Neutral" and for
\* every other label, a known label in another letter case included.
C18_SentimentLabelStyle ==
  Shown("NewsCard.sentiment") =>
     LET label == rendering.input
         style == rendering.output
     IN /\ label = "Bullish" => style = Green
        /\ label = "Somewhat-Bullish" => style = Green
        /\ label = "Bearish" => style = Red
        /\ label = "Somewhat-Bearish" => style = Red
        /\ label = "Neutral" => style = Gray
        /\ label \notin {"Bullish", "Somewhat-Bullish", "Bearish",
                         "Somewhat-Bearish"} => style = Gray
        /\ style \in {Green, Red, Gray}

\* A known label in lower case, rendered gray.
C18_Witness ==
  /\ Shown("NewsCard.sentiment")
  /\ rendering.input = "bullish"
  /\ rendering.output = Gray

\* ------------------------------------------------------------------ C19
\* The first 8 characters of the text are digits that name a calendar day.
NamesCalendarDay(text) ==
  /\ Len(text) >= 8
  /\ IsDigits(SubSeq(text, 1, 8))
  /\ ToNumber(SubSeq(text, 5, 6)) \in 1..12
  /\ ToNumber(SubSeq(text, 7, 8)) \in
       1..DaysInMonth(ToNumber(SubSeq(text, 1, 4)), ToNumber(SubSeq(text, 5, 6)))

\* The locale date of the calendar day the first 8 characters name.
NamedDay(text) ==
  LocaleDate(ToNumber(SubSeq(text, 1, 4)), ToNumber(SubSeq(text, 5, 6)),
             ToNumber(SubSeq(text, 7, 8)))

\* C19: formatDate gives "N/A" for the empty string and for every text
\* shorter than 8 characters, and for a compact timestamp the locale date of
\* the day its first 8 characters name (year, month, day), whatever follows
\* them: "20250224T231000" gives the locale date of 2025-02-24.
C19_FormatDate ==
  Shown("NewsCard.date") =>
     LET dateString == rendering.input
     IN /\ Len(dateString) < 8 => rendering.output = Str("N/A")
        /\ dateString = "2025" => rendering.output = Str("N/A")
        /\ dateString = "20250224T231000" =>
             rendering.output = LocaleDate(2025, 2, 24)
        /\ NamesCalendarDay(dateString) =>
             rendering.output = NamedDay(dateString)

\* In a browser five hours west of Greenwich "20250224T231000" is rendered
\* as the locale date of 2025-02-23.
C19_Witness ==
  /\ Shown("NewsCard.date")
  /\ rendering.input = "20250224T231000"
  /\ rendering.tz = -5
  /\ rendering.output = LocaleDate(2025, 2, 23)

\* ------------------------------------------------------------------ C20
\* C20: for a timestamp of at least 8 characters whose first 8 characters
\* name no calendar day, formatDate gives the timestamp itself.
C20_InvalidDateGivesRawText ==
  (/\ Shown("NewsCard.date")
   /\ Len(rendering.input) >= 8
   /\ ~NamesCalendarDay(rendering.input))
     => rendering.output = Str(rendering.input)

\* Month 13: the text "Invalid Date" is rendered, not the timestamp.
C20_Witness ==
  /\ Shown("NewsCard.date")
  /\ rendering.input = "20251324T231000"
  /\ rendering.output = Str("Invalid Date")

\* ------------------------------------------------------------------ C21
\* C21: for the overall prediction and for every forecast point, "UP" draws
\* the up icon in green and "DOWN" the down icon in red, and every value
\* that is not exactly "UP" (another value, "UP" in another letter case)
\* draws the down icon in red.
C21_DirectionGlyph ==
  /\ Shown("Direction") =>
       /\ rendering.input = "UP" =>
            rendering.output = Glyph("TrendingUp", "text-green-500", "text-green-600")
       /\ rendering.input # "UP" =>
            rendering.output = Glyph("TrendingDown", "text-red-500", "text-red-600")
  /\ Shown("ForecastTable.direction") =>
       /\ rendering.input = "UP" =>
            rendering.output = Glyph("ArrowUp", "text-green-500", "text-green-600")
       /\ rendering.input # "UP" =>
            rendering.output = Glyph("ArrowDown", "text-red-500", "text-red-600")

\* A forecast row whose direction is "up" in lower case, drawn as down.
C21_Witness ==
  /\ Shown("ForecastTable.direction")
  /\ rendering.input = "up"
  /\ rendering.output.icon = "ArrowDown"
  /\ rendering.output.iconClass = "text-red-500"

\* ------------------------------------------------------------------ C22
\* The requests a flag covers: loading covers what the handleSubmit of a
\* submission awaits, marketLoading (home) a fetchMarketMovers call.
LoadingCovers(id) == Running(handlers[id])
MarketLoadingCovers(id) == movers[id].pc \in {"fetch", "json"}

Values(list) == {list[i] : i \in 1..Len(list)}

\* The selects hold entries of their option lists, and quote_currency, which
\* has no control, holds "USD".
FormWithinOptions ==
  /\ formData.timeframe \in Values(timeframes(variant))
  /\ formData.period \in Values(periods(variant))
  /\ formData[CryptoField(variant)] \in Values(popularCryptos(variant))
  /\ variant \in {"home", "basic"} => formData.quote_currency = "USD"

\* C23: a change of one form field changes that field alone and leaves
\* loading, error and the payloads as they were; only a field change
\* changes the form; in every state timeframe, period and symbol or base
\* currency are entries of the variant's option lists and, where there is a
\* quote_currency, it is "USD".
C23_FormFrame ==
  /\ FormWithinOptions
  /\ [][/\ last'.op = "change" =>
            /\ Cardinality({k \in DOMAIN formData : formData'[k] # formData[k]}) = 1
            /\ DOMAIN formData' = DOMAIN formData
            /\ UNCHANGED <<prediction, marketMovers, news, error, loading,
                           marketLoading, newsLoading>>
        /\ formData' # formData => last'.op = "change"
        /\ FormWithinOptions']_vars

\* A field changed while the request is pending and an earlier prediction
\* is displayed.
C23_Witness ==
  /\ last.op = "change"
  /\ formData.timeframe # InitialFormData(variant).timeframe
  /\ loading
  /\ prediction # Null

\* ------------------------------------------------------------------ C24
\* C24: the submit control is disabled exactly while loading is true, and
\* no submission starts while it is: at most one prediction POST is in
\* flight, that of the latest submission, and loading is true until the
\* handler of that submission has cleared it.
C24_OnePostInFlight ==
  /\ SubmitDisabled <=> loading
  /\ loading => ~ENABLED Submit
  /\ Cardinality({r \in net : r.kind = "predict"}) <= 1
  /\ \A r \in net : r.kind = "predict" => (r.id = nsub /\ loading)
  /\ \A id \in Subs : PredictPending(id) => (id = nsub /\ loading)
  /\ loading <=> \E id \in Subs : Running(handlers[id])

\* The POST of a resubmission is in flight with the control disabled.
C24_Witness ==
  /\ [id |-> 2, kind |-> "predict"] \in net
  /\ loading
  /\ SubmitDisabled
  /\ ~ENABLED Submit

\* ------------------------------------------------------------------ C25
\* C25: in home, marketLoading is true in every state in which a
\* market-movers request is in flight, also when the request of a
\* resubmission overlaps an earlier one.
C25_MarketLoadingWhileInFlight ==
  (/\ variant = "home"
   /\ \/ \E r \in net : r.kind = "market"
      \/ \E id \in Subs : MarketLoadingCovers(id))
     => marketLoading

\* The market-movers request of the resubmission is in flight and the
\* earlier one has ended: marketLoading is false.
C25_Witness ==
  /\ variant = "home"
  /\ [id |-> 2, kind |-> "market"] \in net
  /\ movers[1].pc = "done"
  /\ last.op \in {"mover_fetch", "mover_json"}
  /\ last.id = 1
  /\ ~marketLoading

\* ------------------------------------------------------------------ C26
\* C26 as stated: an error is only ever set by a request of the most recent
\* submission.
C26_ErrorOfLatestSubmission_AsStated ==
  [][(error' # error /\ error' # Null) => last'.id = nsub']_vars

\* C26 amended: only a submit clears the error; in yahoo and basic an error
\* is set only by a request of the most recent submission; in home it is
\* set by the prediction request of the most recent submission or by the
\* market-movers request of any submission, an earlier one included.
C26_ErrorOfLatestSubmission ==
  [][/\ (error # Null /\ error' = Null) => SubmitStep
     /\ (error' # error /\ error' # Null) =>
          \/ last'.id = nsub'
          \/ /\ variant = "home"
             /\ last'.op \in {"mover_fetch", "mover_json"}
             /\ last'.id < nsub']_vars

\* home: the second submission has stored its prediction, and the error
\* shown is the failure of the market-movers request of the first.
C26_Witness ==
  /\ variant = "home"
  /\ SecondaryFailure(last)
  /\ last.id < nsub
  /\ handlers[nsub].stored
  /\ error = Str(FailureMessage(last))

C28_NotOkSecondaryIgnored ==
  [][SkippedResponse(last') =>
       /\ variant = "yahoo"
       /\ error' = error
       /\ PayloadAfter(last') =
            (IF last'.op = "market_fetch" THEN marketMovers ELSE news)
       /\ <<prediction, marketMovers, news>>' = <<prediction, marketMovers, news>>
       /\ last'.op = "market_fetch" =>
            /\ Issued("news") # {}
            /\ \A r \in Issued("news") : r.id = last'.id
            /\ handlers'[last'.id].pc = "news_fetch"
            /\ loading'
       /\ last'.op = "news_fetch" =>
            (handlers'[last'.id].pc = "done" /\ ~loading')]_vars

\* yahoo: the first submission stored market movers; the market-movers
\* request of the second got a non-2xx response, the movers of the first
\* are still held, no error is shown and the news request is in flight.
C28_Witness ==
  /\ variant = "yahoo"
  /\ last.op = "market_fetch"
  /\ last.outcome = "notok"
  /\ last.id = 2
  /\ marketMovers \in MarketBodies \ {Unparseable}
  /\ error = Null
  /\ [id |-> 2, kind |-> "news"] \in net

\* ------------------------------------------------------------------ C29
\* The market-movers request of a submission ended by throwing: its fetch
\* rejected or its 2xx body did not parse.
MarketThrew(l) ==
  \/ l.op = "market_fetch" /\ l.outcome = "reject"
  \/ l.op = "market_json" /\ l.body = Unparseable

\* The market-movers response of a submission has been handled to the end.
MarketHandled(l) ==
  \/ l.op = "market_fetch" /\ l.outcome = "notok"
  \/ l.op = "market_json" /\ l.body # Unparseable

\* C29: in yahoo the three requests of a submission follow one another: the
\* market-movers request is issued only by the step that stores the
\* prediction, the news request only by the step that ends the handling of
\* the market-movers response, no market-movers request then being in
\* flight.  If the market-movers fetch rejects or its 2xx body does not
\* parse, the handler returns with error set and the prediction stored, it
\* issued no news request and, having returned, issues none later.
C29_YahooSequential ==
  [][variant = "yahoo" =>
       /\ \A r \in Issued("market") :
            /\ OkBodyStep(r.id)
            /\ prediction' = last'.body
            /\ handlers'[r.id].stored
       /\ \A r \in Issued("news") :
            /\ MarketHandled(last')
            /\ last'.id = r.id
            /\ handlers[r.id].pc \in {"market_fetch", "market_json"}
            /\ handlers[r.id].stored
            /\ \A q \in net' : q.kind # "market"
       /\ MarketThrew(last') =>
            /\ handlers'[last'.id].pc = "done"
            /\ handlers'[last'.id].stored
            /\ error' # Null
            /\ prediction' = prediction
            /\ prediction' # Null
            /\ sent' = {}
            /\ \A q \in net' : q.id # last'.id
       /\ \A id \in Subs :
            handlers[id].pc = "done" =>
               (handlers'[id].pc = "done" /\ \A r \in sent' : r.id # id)]_vars

\* yahoo: the prediction is stored, the market-movers body did not parse,
\* the handler has returned with an error and no news request was made.
C29_Witness ==
  /\ variant = "yahoo"
  /\ last.op = "market_json"
  /\ last.body = Unparseable
  /\ handlers[last.id].pc = "done"
  /\ handlers[last.id].stored
  /\ prediction # Null
  /\ error = Str(ParseErrorMessage)
  /\ news = Null
  /\ net = {}

\* ------------------------------------------------------------------ C30
\* C30: in home no news request is ever issued: in every reachable state
\* newsSentiment is null and newsLoading is false, no news request is in
\* flight and the last step issued none.
C30_HomeHasNoNews ==
  variant = "home" =>
    /\ news = Null
    /\ ~newsLoading
    /\ \A r \in net : r.kind # "news"
    /\ \A r \in sent : r.kind # "news"

\* home: two submissions stored their predictions and both market-movers
\* requests have ended with movers stored; there is still no news.
C30_Witness ==
  /\ variant = "home"
  /\ nsub = 2
  /\ handlers[1].stored
  /\ handlers[2].stored
  /\ movers[1].pc = "done"
  /\ movers[2].pc = "done"
  /\ marketMovers # Null
  /\ net = {}
  /\ news = Null
  /\ ~newsLoading

====
